---- MODULE Spec2Model ----
(***************************************************************************)
(* Model of src/data/fix_csv_newlines.py: the repair of a CSV export whose *)
(* old records span several physical lines.                                *)
(*                                                                         *)
(* Text is a sequence of symbols.  A symbol is one character (",", "\"",   *)
(* " ", "|", "\n", "\r", a digit, a letter), except that a run of letters  *)
(* that no operation of the program looks into (a column name such as      *)
(* EVENT_NARRATIVE) is written as one symbol.                              *)
(***************************************************************************)
EXTENDS Integers, Sequences, FiniteSets, TLC

VARIABLES
    pc,                   \* position in fix_csv / parse_malformed_csv
    run,                  \* 1: first run; 2: the run on the first run's output
    content,              \* text of the input file, as read
    lines,                \* content.split('\n'), header included
    fieldnames,           \* header_line.split(',')
    pos,                  \* number of lines of lines[1:] consumed by the scan
    current_record_lines, \* the accumulator of the scan
    expected_row_num,     \* the expectation of the scan
    raw_records,          \* the spans emitted by the scan
    rec,                  \* number of spans consumed by the parse loop
    raw_record,           \* loop variable of the parse loop
    parsed,               \* result of parse_single_record for raw_record
    parsed_rows,          \* the accepted records
    output,               \* text of the output file
    stats,                \* the summary returned by fix_csv
    first_rows            \* the records of the first run, kept for the second

vars == <<pc, run, content, lines, fieldnames, pos, current_record_lines,
          expected_row_num, raw_records, rec, raw_record, parsed,
          parsed_rows, output, stats, first_rows>>

----------------------------------------------------------------------------
(* Symbols *)

Q == "\""
NL == "\n"
CR == "\r"
Digits == {"0", "1", "2", "3", "4", "5", "6", "7", "8", "9"}

\* \s of the re module, on the symbols of the model
Whitespace == {" ", "\n", "\r", "\t"}

\* The value None, where the other values are texts
NoneValue == <<"None">>

\* The three column names the program hard-codes
EVENT_NARRATIVE == <<"EVENT_NARRATIVE">>
EPISODE_NARRATIVE == <<"EPISODE_NARRATIVE">>
ABSOLUTE_ROWNUMBER == <<"ABSOLUTE_ROWNUMBER">>

----------------------------------------------------------------------------
(* str operations *)

Min(S) == CHOOSE x \in S : \A y \in S : x <= y
Max(S) == CHOOSE x \in S : \A y \in S : x >= y

ToSet(s) == {s[i] : i \in 1..Len(s)}

\* s[i-1:] in Python's 0-based slices: the text from the i-th symbol on
From(s, i) == SubSeq(s, i, Len(s))

OccursAt(s, pat, i) ==
    /\ i >= 1
    /\ i + Len(pat) - 1 <= Len(s)
    /\ \A k \in 1..Len(pat) : s[i + k - 1] = pat[k]

\* pat in s
Contains(s, pat) == \E i \in 1..Len(s) : OccursAt(s, pat, i)

\* s.rfind(pat): the 0-based index of the rightmost occurrence, or -1
RFind(s, pat) ==
    LET occ == {i \in 1..Len(s) : OccursAt(s, pat, i)}
    IN  IF occ = {} THEN -1 ELSE Max(occ) - 1

\* s.replace(old, new): the occurrences found left to right, not overlapping
RECURSIVE ReplaceFrom(_, _, _, _)
ReplaceFrom(s, old, new, i) ==
    IF i > Len(s) THEN <<>>
    ELSE IF OccursAt(s, old, i)
         THEN new \o ReplaceFrom(s, old, new, i + Len(old))
         ELSE <<s[i]>> \o ReplaceFrom(s, old, new, i + 1)

Replace(s, old, new) == ReplaceFrom(s, old, new, 1)

\* while old in s: s = s.replace(old, new)
RECURSIVE ReplaceWhile(_, _, _)
ReplaceWhile(s, old, new) ==
    IF Contains(s, old) THEN ReplaceWhile(Replace(s, old, new), old, new) ELSE s

\* s.split(sep) for a one-symbol separator
RECURSIVE Split(_, _)
Split(s, sep) ==
    LET at == {i \in 1..Len(s) : s[i] = sep}
    IN  IF at = {} THEN <<s>>
        ELSE <<SubSeq(s, 1, Min(at) - 1)>> \o Split(From(s, Min(at) + 1), sep)

\* sep.join(parts)
RECURSIVE Join(_, _)
Join(parts, sep) ==
    IF Len(parts) = 0 THEN <<>>
    ELSE IF Len(parts) = 1 THEN parts[1]
    ELSE parts[1] \o sep \o Join(Tail(parts), sep)

\* s.strip(chars)
Strip(s, chars) ==
    LET keep == {i \in 1..Len(s) : s[i] \notin chars}
    IN  IF keep = {} THEN <<>> ELSE SubSeq(s, Min(keep), Max(keep))

\* int(digits)
RECURSIVE IntOf(_)
IntOf(d) ==
    IF d = <<>> THEN 0
    ELSE 10 * IntOf(SubSeq(d, 1, Len(d) - 1))
         + (CHOOSE v \in 0..9 :
                <<"0", "1", "2", "3", "4", "5", "6", "7", "8", "9">>[v + 1] = d[Len(d)])

\* Number of symbols of class cls that s carries from its i-th symbol on
RunLen(s, i, cls) ==
    Max({n \in 0..(Len(s) - i + 1) : \A k \in i..(i + n - 1) : s[k] \in cls})

\* $ of the re module at the place before the j-th symbol: the end of the
\* text, or the place before a line feed that ends the text
AtEnd(s, j) == j = Len(s) + 1 \/ (j = Len(s) /\ s[j] = NL)

----------------------------------------------------------------------------
(* re operations *)

\* No match of a pattern; a matched group of digits is never empty
NoMatch == <<>>

\* record_end_pattern.search(line).group(1) for the pattern [,"](\d+)$ :
\* the leftmost comma or quote that is followed by digits up to the end
record_end_pattern(line) ==
    LET hits == {i \in 1..Len(line) :
                    /\ line[i] \in {",", Q}
                    /\ RunLen(line, i + 1, Digits) >= 1
                    /\ AtEnd(line, i + 1 + RunLen(line, i + 1, Digits))}
    IN  IF hits = {} THEN NoMatch
        ELSE SubSeq(line, Min(hits) + 1, Min(hits) + RunLen(line, Min(hits) + 1, Digits))

\* re.sub(r'^"","?\s*', '', s)
SubLeadingMarker(s) ==
    IF ~OccursAt(s, <<Q, Q, ",">>, 1) THEN s
    ELSE LET j == IF Len(s) >= 4 /\ s[4] = Q THEN 5 ELSE 4
         IN  From(s, j + RunLen(s, j, Whitespace))

\* End of a match of  sep \s* \d+ $  whose separator (a comma) is the a-th
\* symbol: the place after the digits, or 0 when there is no match there
TailEnd(s, a) ==
    IF a > Len(s) \/ s[a] # "," THEN 0
    ELSE LET b == a + 1 + RunLen(s, a + 1, Whitespace)
             n == RunLen(s, b, Digits)
         IN  IF n >= 1 /\ AtEnd(s, b + n) THEN b + n ELSE 0

\* re.sub(r'"\s*,\s*\d+$', '', s)
SubTrailingQuoted(s) ==
    LET hits == {i \in 1..Len(s) :
                    s[i] = Q /\ TailEnd(s, i + 1 + RunLen(s, i + 1, Whitespace)) # 0}
    IN  IF hits = {} THEN s
        ELSE LET i == Min(hits)
             IN  SubSeq(s, 1, i - 1)
                 \o From(s, TailEnd(s, i + 1 + RunLen(s, i + 1, Whitespace)))

\* re.sub(r',\s*\d+$', '', s)
SubTrailingPlain(s) ==
    LET hits == {i \in 1..Len(s) : TailEnd(s, i) # 0}
    IN  IF hits = {} THEN s
        ELSE SubSeq(s, 1, Min(hits) - 1) \o From(s, TailEnd(s, Min(hits)))

----------------------------------------------------------------------------
(* csv operations: the excel dialect (delimiter ',', quotechar '"',       *)
(* doublequote, QUOTE_MINIMAL, lineterminator '\r\n', not strict)          *)

\* The reader's automaton on the symbols of one line that holds no line
\* break, from the i-th symbol on; at the end of the line and of the input
\* every state saves the field it holds
RECURSIVE CsvParse(_, _, _, _, _)
CsvParse(line, i, state, fld, flds) ==
    IF i > Len(line) THEN Append(flds, fld)
    ELSE LET c == line[i] IN
         CASE state = "START_FIELD" ->
                IF c = Q THEN CsvParse(line, i + 1, "IN_QUOTED_FIELD", <<>>, flds)
                ELSE IF c = "," THEN CsvParse(line, i + 1, "START_FIELD", <<>>, Append(flds, <<>>))
                ELSE CsvParse(line, i + 1, "IN_FIELD", <<c>>, flds)
           [] state = "IN_FIELD" ->
                IF c = "," THEN CsvParse(line, i + 1, "START_FIELD", <<>>, Append(flds, fld))
                ELSE CsvParse(line, i + 1, "IN_FIELD", Append(fld, c), flds)
           [] state = "IN_QUOTED_FIELD" ->
                IF c = Q THEN CsvParse(line, i + 1, "QUOTE_IN_QUOTED_FIELD", fld, flds)
                ELSE CsvParse(line, i + 1, "IN_QUOTED_FIELD", Append(fld, c), flds)
           [] state = "QUOTE_IN_QUOTED_FIELD" ->
                IF c = Q THEN CsvParse(line, i + 1, "IN_QUOTED_FIELD", Append(fld, c), flds)
                ELSE IF c = "," THEN CsvParse(line, i + 1, "START_FIELD", <<>>, Append(flds, fld))
                ELSE CsvParse(line, i + 1, "IN_FIELD", Append(fld, c), flds)

\* next(csv.reader(io.StringIO(line))): the values, or StopIteration raised
\* when the text holds no line at all
csv_reader(line) ==
    IF line = <<>> THEN [raised |-> TRUE, values |-> <<>>]
    ELSE [raised |-> FALSE, values |-> CsvParse(line, 1, "START_FIELD", <<>>, <<>>)]

\* One field as csv.writer writes it
QuoteField(f) ==
    IF \E i \in 1..Len(f) : f[i] \in {",", Q, CR, NL}
    THEN <<Q>> \o Replace(f, <<Q>>, <<Q, Q>>) \o <<Q>>
    ELSE f

\* csv.writer.writerow(values): a record of one empty field is written ""
writerow(values) ==
    LET body == Join([i \in 1..Len(values) |-> QuoteField(values[i])], <<",">>)
    IN  (IF Len(values) >= 1 /\ body = <<>> THEN <<Q, Q>> ELSE body) \o <<CR, NL>>

----------------------------------------------------------------------------
(* dict operations: a dict is a function from its keys *)

\* The value None of parse_single_record; like the empty dict it is false
\* in `if parsed:`
None == <<>>

IsNone(d) == DOMAIN d = {}

\* d[k] = v
DictSet(d, k, v) == [x \in DOMAIN d \cup {k} |-> IF x = k THEN v ELSE d[x]]

\* dict(zip(keys, values)) for as many values as keys: a later key wins
DictZip(keys, values) ==
    [k \in ToSet(keys) |-> values[Max({i \in 1..Len(keys) : keys[i] = k})]]

----------------------------------------------------------------------------
(* The functions of fix_csv_newlines.py *)

\* Mutant of clean_narrative: the line feeds are not replaced
clean_narrative_keeping_newlines(text) ==
    IF text = <<>> THEN <<>>
    ELSE LET t1 == Replace(Replace(text, <<CR, NL>>, <<NL>>), <<CR>>, <<NL>>)
             t2 == ReplaceWhile(t1, <<NL, NL>>, <<NL>>)
             t4 == ReplaceWhile(t2, <<" ", " ">>, <<" ">>)
             t5 == Strip(t4, {" ", "|"})
         IN  Strip(t5, {Q})

clean_narrative(text) ==
    IF text = <<>> THEN <<>>
    ELSE LET t1 == Replace(Replace(text, <<CR, NL>>, <<NL>>), <<CR>>, <<NL>>)
             t2 == ReplaceWhile(t1, <<NL, NL>>, <<NL>>)
             t3 == Replace(t2, <<NL>>, <<" ", "|", " ">>)
             t4 == ReplaceWhile(t3, <<" ", " ">>, <<" ">>)
             t5 == Strip(t4, {" ", "|"})
         IN  Strip(t5, {Q})

parse_csv_fields(line) ==
    IF csv_reader(line).raised THEN Split(line, ",") ELSE csv_reader(line).values

parse_single_line_record(line, names) ==
    LET r == csv_reader(line) IN
    IF r.raised THEN None
    ELSE IF Len(r.values) # Len(names) THEN None
    ELSE LET row == DictZip(names, r.values)
         IN  [f \in DOMAIN row |->
                 IF f \in {EVENT_NARRATIVE, EPISODE_NARRATIVE} /\ row[f] # <<>>
                 THEN clean_narrative(row[f])
                 ELSE row[f]]

\* narrative_marker of parse_single_record: the three rfind calls in turn.
\* variant names the call whose result is kept (0: none found)
MarkerVariants == << <<",", Q, Q, ",", Q>>, <<",", Q, Q, ",", Q, " ">>, <<",", Q, Q, ",">> >>

FindMarker(first_line) ==
    LET m1 == RFind(first_line, MarkerVariants[1])
        m2 == RFind(first_line, MarkerVariants[2])
        m3 == RFind(first_line, MarkerVariants[3])
    IN  IF m1 # -1 THEN [variant |-> 1, at |-> m1]
        ELSE IF m2 # -1 THEN [variant |-> 2, at |-> m2]
        ELSE IF m3 # -1 THEN [variant |-> 3, at |-> m3]
        ELSE [variant |-> 0, at |-> -1]

\* Mutant of FillStructured: the last parsed value is left out (i < len)
RECURSIVE FillStructuredOffByOne(_, _, _, _)
FillStructuredOffByOne(row, head, structured_fields, i) ==
    IF i > Len(head) THEN row
    ELSE FillStructuredOffByOne(
             DictSet(row, head[i],
                     IF i < Len(structured_fields) THEN structured_fields[i] ELSE <<>>),
             head, structured_fields, i + 1)

\* The loop `for i, field in enumerate(fieldnames[:-3])` from its i-th turn
RECURSIVE FillStructured(_, _, _, _)
FillStructured(row, head, structured_fields, i) ==
    IF i > Len(head) THEN row
    ELSE FillStructured(
             DictSet(row, head[i],
                     IF i <= Len(structured_fields) THEN structured_fields[i] ELSE <<>>),
             head, structured_fields, i + 1)

parse_single_record(raw, names) ==
    LET ls == Split(raw, NL) IN
    IF Len(ls) = 1 THEN parse_single_line_record(raw, names)
    ELSE
    LET first_line == ls[1]
        row_number == record_end_pattern(ls[Len(ls)])
        narrative_marker == FindMarker(first_line).at
    IN
    IF row_number = NoMatch THEN None
    ELSE IF narrative_marker = -1
         THEN parse_single_line_record(Replace(raw, <<NL>>, <<" ", "|", " ">>), names)
    ELSE
    LET structured_fields == parse_csv_fields(SubSeq(first_line, 1, narrative_marker))
        full_narrative == Join(<<From(first_line, narrative_marker + 2)>> \o Tail(ls), <<NL>>)
        stripped == SubTrailingPlain(SubTrailingQuoted(SubLeadingMarker(full_narrative)))
        episode_narrative == clean_narrative(stripped)
        head == SubSeq(names, 1, Len(names) - 3)
        row0 == FillStructured(<<>>, head, structured_fields, 1)
    IN  DictSet(DictSet(DictSet(row0, EVENT_NARRATIVE, <<>>),
                        EPISODE_NARRATIVE, episode_narrative),
                ABSOLUTE_ROWNUMBER, row_number)

----------------------------------------------------------------------------
(* Input files *)

\* Largest number of physical lines after the header
MaxLines == 3

\* Header lines: the documented one, and one of fewer than three columns,
\* none of them a hard-coded one
Headers ==
    { <<"A", ",", "B", ",", "EVENT_NARRATIVE", ",", "EPISODE_NARRATIVE", ",",
        "ABSOLUTE_ROWNUMBER">>,
      <<"A", ",", "B">> }

\* Physical lines a file is made of
LinePool ==
    { <<"x", ",", "y", ",", "e", ",", "p", ",", "1">>,  \* well-formed row 1
      <<"x", ",", "y", ",", "e", ",", "p", ",", "2">>,  \* well-formed row 2
      <<"x", ",", Q, Q, ",", Q>>,                       \* x,"","   start of an old record
      <<"x", ",", "y", ",", Q, Q, ",">>,                \* x,y,"",  shortest marker only
      <<"x", ",", Q, Q, ",", Q, " ", "t", ",", Q, Q, ",", Q>>,
                                                        \* x,""," t,"","  two markers
      <<"x", ",", "y", ",", "e", ",", "p">>,            \* four columns, no number
      <<"t">>,                                          \* narrative text
      <<"t", ",", "2">>,                                \* narrative text ending in a number
      <<Q, ",", "1">>,                                  \* ",1      end of old record 1
      <<Q, " ", "t", Q, ",", "1">>,                     \* " t",1   quoted text, end of record 1
      <<>> }                                            \* an empty line

LineEndings == { <<NL>>, <<CR, NL>>, <<CR>> }

Files ==
    { Join(<<h>> \o body, eol) :
        h \in Headers, eol \in LineEndings,
        body \in UNION { [1..n -> LinePool] : n \in 0..MaxLines } }

----------------------------------------------------------------------------
(* fix_csv as a state machine *)

NoStats == [total_rows |-> 0, first_row_number |-> NoneValue,
            last_row_number |-> NoneValue]

Init ==
    /\ content \in Files
    /\ pc = "read"
    /\ run = 1
    /\ lines = <<>>
    /\ fieldnames = <<>>
    /\ pos = 0
    /\ current_record_lines = <<>>
    /\ expected_row_num = 1
    /\ raw_records = <<>>
    /\ rec = 0
    /\ raw_record = <<>>
    /\ parsed = None
    /\ parsed_rows = <<>>
    /\ output = <<>>
    /\ stats = NoStats
    /\ first_rows = <<>>

\* parse_malformed_csv, lines 29-53: read, normalize the line endings, split,
\* take the header, start the scan
ReadFile ==
    /\ pc = "read"
    /\ LET normalized == Replace(Replace(content, <<CR, NL>>, <<NL>>), <<CR>>, <<NL>>)
           ls == Split(normalized, NL)
       IN  /\ content' = normalized
           /\ lines' = ls
           /\ fieldnames' = Split(ls[1], ",")
    /\ raw_records' = <<>>
    /\ current_record_lines' = <<>>
    /\ expected_row_num' = 1
    /\ pos' = 0
    /\ pc' = "scan"
    /\ UNCHANGED <<run, rec, raw_record, parsed, parsed_rows, output, stats, first_rows>>

\* Mutant of ClosesSpan: the number is not compared with the expectation
ClosesSpanAnyNumber(line, e) == record_end_pattern(line) # NoMatch

\* Whether the scan closes the span at this line under expectation e
ClosesSpan(line, e) ==
    /\ record_end_pattern(line) # NoMatch
    /\ IntOf(record_end_pattern(line)) = e

\* One turn of the loop `for line in lines[1:]`
ScanLine ==
    /\ pc = "scan"
    /\ pos < Len(lines) - 1
    /\ LET line == lines[pos + 2]
           acc == Append(current_record_lines, line)
       IN  IF ClosesSpan(line, expected_row_num)
           THEN /\ raw_records' = Append(raw_records, Join(acc, <<NL>>))
                /\ current_record_lines' = <<>>
                /\ expected_row_num' = expected_row_num + 1
           ELSE /\ current_record_lines' = acc
                /\ UNCHANGED <<raw_records, expected_row_num>>
    /\ pos' = pos + 1
    /\ UNCHANGED <<pc, run, content, lines, fieldnames, rec, raw_record, parsed,
                   parsed_rows, output, stats, first_rows>>

\* Mutant of Flushed: the lines left at the end of input are discarded
FlushedDropped(spans, acc) == spans

\* raw_records after `if current_record_lines: raw_records.append(...)`
Flushed(spans, acc) ==
    IF acc # <<>> THEN Append(spans, Join(acc, <<NL>>)) ELSE spans

\* After the loop: the remaining lines become a last span; the parse loop
\* starts
FlushRemaining ==
    /\ pc = "scan"
    /\ pos = Len(lines) - 1
    /\ raw_records' = Flushed(raw_records, current_record_lines)
    /\ parsed_rows' = <<>>
    /\ rec' = 0
    /\ pc' = "parse"
    /\ UNCHANGED <<run, content, lines, fieldnames, pos, current_record_lines,
                   expected_row_num, raw_record, parsed, output, stats, first_rows>>

\* Mutant of AppendParsed: the record is put in front
AppendParsedFirst(rows, p) == IF IsNone(p) THEN rows ELSE <<p>> \o rows

\* parsed_rows after `if parsed: parsed_rows.append(parsed)`
AppendParsed(rows, p) == IF IsNone(p) THEN rows ELSE Append(rows, p)

\* One turn of the loop `for raw_record in raw_records`
ParseRecord ==
    /\ pc = "parse"
    /\ rec < Len(raw_records)
    /\ raw_record' = raw_records[rec + 1]
    /\ parsed' = parse_single_record(raw_records[rec + 1], fieldnames)
    /\ parsed_rows' = AppendParsed(parsed_rows, parsed')
    /\ rec' = rec + 1
    /\ UNCHANGED <<pc, run, content, lines, fieldnames, pos, current_record_lines,
                   expected_row_num, raw_records, output, stats, first_rows>>

\* csv.DictWriter._dict_to_list: the keys of the record that are no column
\* make it raise ValueError; a missing column is written empty
WrongFields(row, names) == DOMAIN row \ ToSet(names)

DictToList(row, names) ==
    [i \in 1..Len(names) |-> IF names[i] \in DOMAIN row THEN row[names[i]] ELSE <<>>]

\* The text writer.writerows(rows) writes: the rows before the first one
\* that raises
RECURSIVE WriteRows(_, _)
WriteRows(rows, names) ==
    IF rows = <<>> \/ WrongFields(Head(rows), names) # {} THEN <<>>
    ELSE writerow(DictToList(Head(rows), names)) \o WriteRows(Tail(rows), names)

\* fix_csv, lines 240-246: parse_malformed_csv returns, the output file is
\* written
WriteOutput ==
    /\ pc = "parse"
    /\ rec = Len(raw_records)
    /\ output' = writerow(fieldnames) \o WriteRows(parsed_rows, fieldnames)
    /\ pc' = IF \E i \in 1..Len(parsed_rows) : WrongFields(parsed_rows[i], fieldnames) # {}
             THEN "ValueError"
             ELSE "stats"
    /\ UNCHANGED <<run, content, lines, fieldnames, pos, current_record_lines,
                   expected_row_num, raw_records, rec, raw_record, parsed,
                   parsed_rows, stats, first_rows>>

\* fix_csv, lines 248-254: rows[0]['ABSOLUTE_ROWNUMBER'] raises KeyError for
\* a record without that key
ComputeStats ==
    /\ pc = "stats"
    /\ LET rows == parsed_rows
           n == Len(rows)
       IN  IF n > 0 /\ ( ABSOLUTE_ROWNUMBER \notin DOMAIN rows[1]
                         \/ ABSOLUTE_ROWNUMBER \notin DOMAIN rows[n] )
           THEN pc' = "KeyError" /\ UNCHANGED stats
           ELSE /\ stats' = [ total_rows |-> n,
                              first_row_number |->
                                  IF n > 0 THEN rows[1][ABSOLUTE_ROWNUMBER] ELSE NoneValue,
                              last_row_number |->
                                  IF n > 0 THEN rows[n][ABSOLUTE_ROWNUMBER] ELSE NoneValue ]
                /\ pc' = "done"
    /\ UNCHANGED <<run, content, lines, fieldnames, pos, current_record_lines,
                   expected_row_num, raw_records, rec, raw_record, parsed,
                   parsed_rows, output, first_rows>>

\* fix_csv is run again, on the file the first run wrote
RunAgain ==
    /\ pc = "done"
    /\ run = 1
    /\ run' = 2
    /\ content' = output
    /\ first_rows' = parsed_rows
    /\ pc' = "read"
    /\ lines' = <<>>
    /\ fieldnames' = <<>>
    /\ pos' = 0
    /\ current_record_lines' = <<>>
    /\ expected_row_num' = 1
    /\ raw_records' = <<>>
    /\ rec' = 0
    /\ raw_record' = <<>>
    /\ parsed' = None
    /\ parsed_rows' = <<>>
    /\ output' = <<>>
    /\ stats' = NoStats

\* One run of fix_csv on a file
Next ==
    \/ ReadFile
    \/ ScanLine
    \/ FlushRemaining
    \/ ParseRecord
    \/ WriteOutput
    \/ ComputeStats

Spec == Init /\ [][Next]_vars

\* A run of fix_csv, then a run on what it wrote
NextTwice ==
    \/ Next
    \/ RunAgain

SpecTwice == Init /\ [][NextTwice]_vars

----------------------------------------------------------------------------
(* Vocabulary of the properties *)

\* The j-th physical line after the header
BodyLine(j) == lines[j + 1]

\* The lines of the k-th emitted span, and the last of them
SpanLines(k) == Split(raw_records[k], NL)
LastLine(k) == SpanLines(k)[Len(SpanLines(k))]

\* Number of physical lines in the first k emitted spans
RECURSIVE SpanEnd(_)
SpanEnd(k) == IF k = 0 THEN 0 ELSE SpanEnd(k - 1) + Len(SpanLines(k))

\* The digits a line ends with
TrailingDigits(line) ==
    LET n == Max({k \in 0..Len(line) :
                    \A j \in (Len(line) - k + 1)..Len(line) : line[j] \in Digits})
    IN  SubSeq(line, Len(line) - n + 1, Len(line))

\* The line ends with a comma or a quote followed by digits
EndsWithAnyNumber(line) ==
    /\ TrailingDigits(line) # <<>>
    /\ Len(line) > Len(TrailingDigits(line))
    /\ line[Len(line) - Len(TrailingDigits(line))] \in {",", Q}

\* ... whose integer value is e
EndsWithNumber(line, e) ==
    EndsWithAnyNumber(line) /\ IntOf(TrailingDigits(line)) = e

AllDigits(v) == v # <<>> /\ \A i \in 1..Len(v) : v[i] \in Digits

\* The scan is over
Scanned == pc \notin {"read", "scan"}

\* parse_malformed_csv has returned
Returned == pc \in {"stats", "done", "ValueError", "KeyError"}
               \/ (pc = "parse" /\ rec = Len(raw_records))

\* The record of the i-th span, and the spans among the first k that yield one
ParseOf(i) == parse_single_record(raw_records[i], fieldnames)
Accepted(k) == {i \in 1..k : ~IsNone(ParseOf(i))}

\* The j-th smallest member of a set of numbers
Nth(S, j) == CHOOSE i \in S : Cardinality({x \in S : x <= i}) = j

\* The physical lines of the output file
OutputLines == Split(Replace(output, <<CR, NL>>, <<NL>>), NL)

----------------------------------------------------------------------------
(* C2 *)

\* C2: during the boundary scan, which starts with expectation 1, the k-th
\* closed span ends at the first line after the end of span k-1 that ends
\* with a comma or quote followed by digits of value k; closing resets the
\* accumulator and raises the expectation by exactly 1; every other line,
\* a false boundary included, stays in the accumulator and leaves the
\* expectation alone.
C2_ScanClosesOnExactMatch ==
    pc = "scan" =>
        /\ Len(raw_records) = expected_row_num - 1
        /\ \A k \in 1..Len(raw_records) :
              /\ SpanEnd(k) > SpanEnd(k - 1)
              /\ SpanEnd(k) <= pos
              /\ EndsWithNumber(BodyLine(SpanEnd(k)), k)
              /\ \A j \in (SpanEnd(k - 1) + 1)..(SpanEnd(k) - 1) :
                    ~EndsWithNumber(BodyLine(j), k)
              /\ \A j \in 1..Len(SpanLines(k)) :
                    SpanLines(k)[j] = BodyLine(SpanEnd(k - 1) + j)
        /\ Len(current_record_lines) = pos - SpanEnd(Len(raw_records))
        /\ \A j \in 1..Len(current_record_lines) :
              /\ current_record_lines[j] = BodyLine(SpanEnd(Len(raw_records)) + j)
              /\ ~EndsWithNumber(current_record_lines[j], expected_row_num)

\* A span has been closed that holds a false boundary (an inner line ending
\* in a number), and a further false boundary waits in the accumulator
C2_Witness ==
    /\ pc = "scan"
    /\ \E k \in 1..Len(raw_records) : \E j \in 1..(Len(SpanLines(k)) - 1) :
          EndsWithAnyNumber(SpanLines(k)[j])
    /\ \E j \in 1..Len(current_record_lines) :
          EndsWithAnyNumber(current_record_lines[j])

----------------------------------------------------------------------------
(* C10 *)

\* C10: after the scan the emitted spans partition the physical lines after
\* the header: in emission order they reproduce these lines exactly, every
\* span holds at least one line, the lines left in the accumulator at the
\* end of input form the last span; only the last span may end in a line
\* that does not match its number, and the expectation is 1 plus the number
\* of spans closed by a match.
C10_SpansPartitionLines ==
    Scanned =>
        /\ SpanEnd(Len(raw_records)) = Len(lines) - 1
        /\ \A k \in 1..Len(raw_records) :
              /\ Len(SpanLines(k)) >= 1
              /\ \A j \in 1..Len(SpanLines(k)) :
                    SpanLines(k)[j] = BodyLine(SpanEnd(k - 1) + j)
        /\ \A k \in 1..(Len(raw_records) - 1) : EndsWithNumber(LastLine(k), k)
        /\ expected_row_num
             = 1 + Cardinality({k \in 1..Len(raw_records) : EndsWithNumber(LastLine(k), k)})

\* Two spans were closed by a match and a third one, of two lines, was
\* flushed at the end of input
C10_Witness ==
    /\ Scanned
    /\ Len(raw_records) = 3
    /\ expected_row_num = 3
    /\ Len(SpanLines(3)) >= 1
    /\ ~EndsWithNumber(LastLine(3), 3)

----------------------------------------------------------------------------
(* C8 *)

\* C8: the records are in the order in which the scan closed their spans:
\* the j-th record is the record of the j-th span that yields one, so each
\* record comes from one span and each span yields at most one record; the
\* output file holds the header and then the records in that order; the
\* summary counts the records and names the row numbers of the first and
\* the last one, None when there is none.
C8_RecordsInSpanOrder ==
    /\ Scanned =>
          LET acc == Accepted(rec)
          IN  /\ Len(parsed_rows) = Cardinality(acc)
              /\ \A j \in 1..Len(parsed_rows) : parsed_rows[j] = ParseOf(Nth(acc, j))
    /\ pc \in {"stats", "done", "KeyError"} =>
          LET acc == Accepted(rec)
              written == OutputLines
          IN  /\ Len(written) = Len(parsed_rows) + 2
              /\ written[1] \o <<CR, NL>> = writerow(fieldnames)
              /\ \A j \in 1..Len(parsed_rows) :
                    written[j + 1] \o <<CR, NL>>
                      = writerow(DictToList(ParseOf(Nth(acc, j)), fieldnames))
    /\ pc = "done" =>
          /\ stats.total_rows = Len(parsed_rows)
          /\ stats.total_rows = Len(OutputLines) - 2
          /\ IF parsed_rows = <<>>
             THEN stats.first_row_number = NoneValue /\ stats.last_row_number = NoneValue
             ELSE /\ stats.first_row_number = parsed_rows[1][ABSOLUTE_ROWNUMBER]
                  /\ stats.last_row_number
                       = parsed_rows[Len(parsed_rows)][ABSOLUTE_ROWNUMBER]

\* A summary was returned for two records with different row numbers, the
\* second span having yielded no record
C8_Witness ==
    /\ pc = "done"
    /\ Len(raw_records) = 3
    /\ Accepted(3) = {1, 3}
    /\ stats.total_rows = 2
    /\ stats.first_row_number # stats.last_row_number

----------------------------------------------------------------------------
(* C4 *)

HasLineBreak(v) == \E i \in 1..Len(v) : v[i] \in {NL, CR}

\* C4: no accepted record holds a line feed or a carriage return in its
\* EVENT_NARRATIVE or EPISODE_NARRATIVE value, whichever path built it.
C4_NarrativesHaveNoLineBreak ==
    \A j \in 1..Len(parsed_rows) :
        \A f \in {EVENT_NARRATIVE, EPISODE_NARRATIVE} \cap DOMAIN parsed_rows[j] :
            ~HasLineBreak(parsed_rows[j][f])

\* A record was accepted whose episode narrative was joined from several
\* physical lines
C4_Witness ==
    /\ pc = "parse"
    /\ rec >= 1
    /\ Len(Split(raw_record, NL)) >= 3
    /\ ~IsNone(parsed)
    /\ Len(parsed_rows) >= 1
    /\ parsed_rows[Len(parsed_rows)] = parsed
    /\ DOMAIN parsed = ToSet(fieldnames)
    /\ EPISODE_NARRATIVE \in DOMAIN parsed
    /\ Contains(parsed[EPISODE_NARRATIVE], <<" ", "|", " ">>)

----------------------------------------------------------------------------
(* C7 *)

\* The span the parse loop has just handled is one of several lines whose
\* last line ends in a number and whose first line holds a marker
MarkerSpan ==
    /\ pc = "parse"
    /\ rec >= 1
    /\ Len(Split(raw_record, NL)) > 1
    /\ EndsWithAnyNumber(Split(raw_record, NL)[Len(Split(raw_record, NL))])
    /\ Contains(Split(raw_record, NL)[1], <<",", Q, Q, ",">>)

\* Place (1-based) of the comma that opens the marker of a first line: the
\* rightmost ,""," if there is one, else the rightmost ,"",
MarkerComma(first) ==
    LET long == {i \in 1..Len(first) : OccursAt(first, <<",", Q, Q, ",", Q>>, i)}
        short == {i \in 1..Len(first) : OccursAt(first, <<",", Q, Q, ",">>, i)}
    IN  IF long # {} THEN Max(long) ELSE Max(short)

\* C7: for a span of several lines with a marker, the record holds, for
\* every column but the last three, the value of the same rank parsed from
\* the text left of the marker, or the empty text when there are fewer
\* values; EVENT_NARRATIVE is empty; EPISODE_NARRATIVE is the normalized
\* text right of the marker; ABSOLUTE_ROWNUMBER is the digits that end the
\* last line, and for a span closed by the scan their value is the
\* expectation at which it was closed.
C7_MultiLineRecord ==
    MarkerSpan =>
        LET ls == Split(raw_record, NL)
            first == ls[1]
            m == MarkerComma(first)
            values == parse_csv_fields(SubSeq(first, 1, m - 1))
            narrative == Join(<<From(first, m + 1)>> \o Tail(ls), <<NL>>)
        IN  /\ ~IsNone(parsed)
            /\ \A i \in 1..(Len(fieldnames) - 3) :
                  /\ fieldnames[i] \in DOMAIN parsed
                  /\ parsed[fieldnames[i]]
                       = IF i <= Len(values) THEN values[i] ELSE <<>>
            /\ {EVENT_NARRATIVE, EPISODE_NARRATIVE, ABSOLUTE_ROWNUMBER} \subseteq DOMAIN parsed
            /\ parsed[EVENT_NARRATIVE] = <<>>
            /\ parsed[EPISODE_NARRATIVE]
                 = clean_narrative(
                       SubTrailingPlain(SubTrailingQuoted(SubLeadingMarker(narrative))))
            /\ parsed[ABSOLUTE_ROWNUMBER] = TrailingDigits(ls[Len(ls)])
            /\ rec < expected_row_num => IntOf(parsed[ABSOLUTE_ROWNUMBER]) = rec

\* The second span, closed by the scan, has a marker, text on a line of its
\* own and a prefix of fewer values than columns; its record is accepted
C7_Witness ==
    /\ MarkerSpan
    /\ rec = 2
    /\ expected_row_num = 3
    /\ Len(fieldnames) = 5
    /\ Len(parse_csv_fields(
              SubSeq(Split(raw_record, NL)[1], 1,
                     MarkerComma(Split(raw_record, NL)[1]) - 1))) = 1
    /\ parsed[EPISODE_NARRATIVE] = <<"t">>
    /\ parsed_rows[Len(parsed_rows)] = parsed

----------------------------------------------------------------------------
(* C1 *)

\* The rows are numbered 1, 2, ..., N in order
NumberedFromOne(rows) ==
    \A j \in 1..Len(rows) :
        /\ ABSOLUTE_ROWNUMBER \in DOMAIN rows[j]
        /\ AllDigits(rows[j][ABSOLUTE_ROWNUMBER])
        /\ IntOf(rows[j][ABSOLUTE_ROWNUMBER]) = j

\* C1: the ABSOLUTE_ROWNUMBER values of the records returned by
\* parse_malformed_csv, read in order, are exactly 1, 2, ..., N for the N
\* records returned, also when a span was dropped.  Stated here for the
\* documented header and for a scan that closed every span by a match, so
\* that the input's own numbers are 1, 2, ... without a gap.
C1_RowNumbersContiguous ==
    ( /\ Returned
      /\ ABSOLUTE_ROWNUMBER \in ToSet(fieldnames)
      /\ Len(raw_records) = expected_row_num - 1 )
    => NumberedFromOne(parsed_rows)

----------------------------------------------------------------------------
(* C3 *)

\* C3: every record returned by parse_malformed_csv has exactly the field
\* names of the header as its keys, for every header.
C3_KeysAreTheHeader ==
    \A j \in 1..Len(parsed_rows) : DOMAIN parsed_rows[j] = ToSet(fieldnames)

----------------------------------------------------------------------------
(* C5 *)

\* C5: fix_csv run on the file a first run wrote returns the same records,
\* field for field and in the same order.  Stated here for a first run
\* whose records are numbered 1, 2, ..., N, the case most favourable to it.
C5_SecondRunReproducesFirst ==
    (run = 2 /\ Returned /\ NumberedFromOne(first_rows)) => parsed_rows = first_rows

----------------------------------------------------------------------------
(* C6 *)

\* C6: once the input file is open fix_csv never fails: a span that cannot
\* be parsed yields no record, and no record makes the writer or the
\* summary raise.
C6_NeverRaises == pc \notin {"ValueError", "KeyError"}

----------------------------------------------------------------------------
(* C9 *)

\* The marker of a first line when the variants are tried most specific
\* first, each at its rightmost occurrence
MostSpecificFirst(first) ==
    LET m2 == RFind(first, MarkerVariants[2])
        m1 == RFind(first, MarkerVariants[1])
        m3 == RFind(first, MarkerVariants[3])
    IN  IF m2 # -1 THEN [variant |-> 2, at |-> m2]
        ELSE IF m1 # -1 THEN [variant |-> 1, at |-> m1]
        ELSE IF m3 # -1 THEN [variant |-> 3, at |-> m3]
        ELSE [variant |-> 0, at |-> -1]

\* C9: for a span of several lines the marker variants are tried most
\* specific first, each at its rightmost occurrence in the first line, and
\* the split is at the first variant that occurs.
C9_MostSpecificVariantFirst ==
    (pc = "parse" /\ rec >= 1 /\ Len(Split(raw_record, NL)) > 1) =>
        FindMarker(Split(raw_record, NL)[1]) = MostSpecificFirst(Split(raw_record, NL)[1])

====
